---- MODULE Spec2Model ----
(***************************************************************************)
(* A model of timezones.py, the Waybar timezones popup: the theme-derived  *)
(* palette, the day/night mix, the offset labels, the slider label and the *)
(* status strip, with the popup's handlers as the actions.                 *)
(*                                                                         *)
(* Python strings that the program inspects character by character (hex    *)
(* colours, labels) are sequences of one-character strings.  Python values *)
(* that may be None or of another type are tagged records.  Floating-point *)
(* quantities are fixed-point integers; each definition names its scale.   *)
(* Colour blending is exact rational arithmetic: IEEE rounding can lower a *)
(* truncated channel by one unit where the exact blend is a whole number.  *)
(***************************************************************************)
EXTENDS Integers, Sequences, FiniteSets, TLC

(***************************************************************************)
(* Python values                                                           *)
(***************************************************************************)
None == [t |-> "none"]

Str(s) == [t |-> "str", v |-> s]

Num(n) == [t |-> "int", v |-> n]

(***************************************************************************)
(* Characters                                                              *)
(***************************************************************************)
HexChars == << "0", "1", "2", "3", "4", "5", "6", "7",
               "8", "9", "a", "b", "c", "d", "e", "f" >>

UpperHexChars == << "0", "1", "2", "3", "4", "5", "6", "7",
                    "8", "9", "A", "B", "C", "D", "E", "F" >>

DecChars == << "0", "1", "2", "3", "4", "5", "6", "7", "8", "9" >>

IsSpace(c) == c \in {" ", "\t", "\n"}

\* one character of str.lower(), over the characters the model uses
lower_char(c) ==
    IF \E i \in 11..16 : UpperHexChars[i] = c
    THEN HexChars[CHOOSE i \in 11..16 : UpperHexChars[i] = c]
    ELSE c

lower(s) == [i \in 1..Len(s) |-> lower_char(s[i])]

\* [0-9a-fA-F]
IsHexChar(c) == \E i \in 1..16 : HexChars[i] = c \/ UpperHexChars[i] = c

\* int(c, 16) of one hex digit
HexVal(c) == (CHOOSE i \in 1..16 : HexChars[i] = lower_char(c)) - 1

RECURSIVE lstrip(_)
lstrip(s) == IF s # << >> /\ IsSpace(Head(s)) THEN lstrip(Tail(s)) ELSE s

RECURSIVE rstrip(_)
rstrip(s) ==
    IF s # << >> /\ IsSpace(s[Len(s)]) THEN rstrip(SubSeq(s, 1, Len(s) - 1)) ELSE s

\* str.strip()
strip(s) == rstrip(lstrip(s))

\* int(x): truncation toward zero of the fixed-point n / d
Trunc(n, d) == IF n >= 0 THEN n \div d ELSE -((-n) \div d)

RECURSIVE HexDigits(_)
HexDigits(n) ==
    IF n < 16 THEN << HexChars[n + 1] >>
    ELSE HexDigits(n \div 16) \o << HexChars[(n % 16) + 1] >>

\* format(v, "02x")
Format02x(v) ==
    IF v < 0
    THEN << "-" >> \o HexDigits(-v)
    ELSE IF v < 16 THEN << "0" >> \o HexDigits(v) ELSE HexDigits(v)

RECURSIVE DecDigits(_)
DecDigits(n) ==
    IF n < 10 THEN << DecChars[n + 1] >>
    ELSE DecDigits(n \div 10) \o << DecChars[(n % 10) + 1] >>

\* format(v, "02d") of a non-negative v
Format02d(v) == IF v < 10 THEN << "0" >> \o DecDigits(v) ELSE DecDigits(v)

(***************************************************************************)
(* Theme colours                                                           *)
(***************************************************************************)
\* HEX_COLOR_RE = ^#?[0-9a-fA-F]{6}$
HEX_COLOR_RE(s) ==
    \/ Len(s) = 6 /\ \A i \in 1..6 : IsHexChar(s[i])
    \/ Len(s) = 7 /\ s[1] = "#" /\ \A i \in 2..7 : IsHexChar(s[i])

normalize_hex(value) ==
    IF value.t # "str" THEN None
    ELSE LET s == strip(value.v)
         IN  IF ~HEX_COLOR_RE(s) THEN None
             ELSE Str(lower(IF s[1] # "#" THEN << "#" >> \o s ELSE s))

\* the scale of a colour channel: a float c in [0,1] is the integer c * 255 * 1000
ChannelScale == 1000

\* (r, g, b) floats, each channel in units of 1 / (255 * ChannelScale)
hex_to_rgb(h) ==
    LET n == normalize_hex(h)
        s == IF n.t = "none" THEN << "#", "0", "0", "0", "0", "0", "0" >> ELSE n.v
        d == Tail(s)
    IN  [i \in 1..3 |->
            (16 * HexVal(d[2 * i - 1]) + HexVal(d[2 * i])) * ChannelScale]

\* rgb_to_hex formatting each channel with "x" in place of "02x"
rgb_to_hex_unpadded(rgb) ==
    Str(<< "#" >> \o HexDigits(Trunc(rgb[1], ChannelScale))
                 \o HexDigits(Trunc(rgb[2], ChannelScale))
                 \o HexDigits(Trunc(rgb[3], ChannelScale)))

rgb_to_hex(rgb) ==
    Str(<< "#" >> \o Format02x(Trunc(rgb[1], ChannelScale))
                 \o Format02x(Trunc(rgb[2], ChannelScale))
                 \o Format02x(Trunc(rgb[3], ChannelScale)))

\* t is in thousandths
blend_rgb(a, b, t) == [i \in 1..3 |-> a[i] + ((b[i] - a[i]) * t) \div 1000]

mix_hex(a, b, t) == rgb_to_hex(blend_rgb(hex_to_rgb(a), hex_to_rgb(b), t))

\* linear(c) of relative_luminance for c = k / 255, k = 0..255, times 100000
LinearTable ==
    << 0, 30, 61, 91, 121, 152, 182, 212, 243, 273, 304, 335, 368, 402, 439, 478,
       518, 561, 605, 651, 700, 750, 802, 857, 913, 972, 1033, 1096, 1161, 1229, 1298, 1370,
       1444, 1521, 1600, 1681, 1764, 1850, 1938, 2029, 2122, 2217, 2315, 2416, 2519, 2624, 2732, 2843,
       2956, 3071, 3190, 3310, 3434, 3560, 3689, 3820, 3955, 4092, 4231, 4374, 4519, 4667, 4817, 4971,
       5127, 5286, 5448, 5613, 5781, 5951, 6125, 6301, 6480, 6663, 6848, 7036, 7227, 7421, 7619, 7819,
       8022, 8228, 8438, 8650, 8866, 9084, 9306, 9531, 9759, 9990, 10224, 10462, 10702, 10946, 11193, 11444,
       11697, 11954, 12214, 12477, 12744, 13014, 13287, 13563, 13843, 14126, 14413, 14703, 14996, 15293, 15593, 15896,
       16203, 16513, 16827, 17144, 17465, 17789, 18116, 18447, 18782, 19120, 19462, 19807, 20156, 20508, 20864, 21223,
       21586, 21953, 22323, 22697, 23074, 23455, 23840, 24228, 24620, 25016, 25415, 25818, 26225, 26636, 27050, 27468,
       27889, 28315, 28744, 29177, 29614, 30054, 30499, 30947, 31399, 31855, 32314, 32778, 33245, 33716, 34191, 34670,
       35153, 35640, 36131, 36625, 37124, 37626, 38133, 38643, 39157, 39676, 40198, 40724, 41254, 41789, 42327, 42869,
       43415, 43966, 44520, 45079, 45641, 46208, 46778, 47353, 47932, 48515, 49102, 49693, 50289, 50888, 51492, 52100,
       52712, 53328, 53948, 54572, 55201, 55834, 56471, 57112, 57758, 58408, 59062, 59720, 60383, 61050, 61721, 62396,
       63076, 63760, 64448, 65141, 65837, 66539, 67244, 67954, 68669, 69387, 70110, 70838, 71569, 72306, 73046, 73791,
       74540, 75294, 76052, 76815, 77582, 78354, 79130, 79910, 80695, 81485, 82279, 83077, 83880, 84687, 85499, 86316,
       87137, 87962, 88792, 89627, 90466, 91310, 92158, 93011, 93869, 94731, 95597, 96469, 97345, 98225, 99110, 100000 >>

\* WCAG relative luminance, times 10^9
relative_luminance(hex_color) ==
    LET rgb == hex_to_rgb(hex_color)
        lin(c) == LinearTable[(c \div ChannelScale) + 1]
    IN  2126 * lin(rgb[1]) + 7152 * lin(rgb[2]) + 722 * lin(rgb[3])

\* dict.get(key, "")
theme_get(theme, key) == IF key \in DOMAIN theme THEN theme[key] ELSE Str(<< >>)

\* str.lower() of a theme key, over the key names the model uses
lower_key(key) ==
    CASE key = "Background" -> "background"
      [] key = "FOREGROUND" -> "foreground"
      [] key = "Color4" -> "color4"
      [] OTHER -> key

\* pick_theme_color giving up at the first key without a valid colour
pick_theme_color_first_only(theme, keys, fallback) ==
    LET f == normalize_hex(fallback)
        value == IF keys = << >> THEN None
                 ELSE normalize_hex(theme_get(theme, lower_key(Head(keys))))
    IN  IF value.t # "none" THEN value
        ELSE IF f.t = "none" THEN Str(<< "#", "0", "0", "0", "0", "0", "0" >>) ELSE f

RECURSIVE pick_theme_color(_, _, _)
pick_theme_color(theme, keys, fallback) ==
    IF keys = << >>
    THEN LET f == normalize_hex(fallback)
         IN  IF f.t = "none" THEN Str(<< "#", "0", "0", "0", "0", "0", "0" >>) ELSE f
    ELSE LET value == normalize_hex(theme_get(theme, lower_key(Head(keys))))
         IN  IF value.t # "none" THEN value
             ELSE pick_theme_color(theme, Tail(keys), fallback)

\* is_light with the comparison turned round
is_light_theme_inverted(bg) == relative_luminance(bg) < 460000000

is_light_theme(bg) == relative_luminance(bg) > 460000000

\* blend ratios are in thousandths, daylight_contrast and daylight_gamma in hundredths
build_semantic_theme(theme) ==
    LET bg == pick_theme_color(theme, << "background" >>,
                               Str(<< "#", "1", "a", "1", "b", "2", "6" >>))
        fg == pick_theme_color(theme, << "foreground", "color15", "color7" >>,
                               Str(<< "#", "a", "9", "b", "1", "d", "6" >>))
        accent == pick_theme_color(theme,
                      << "accent", "color4", "color12", "selection_background" >>,
                      Str(<< "#", "7", "a", "a", "2", "f", "7" >>))
        cursor == pick_theme_color(theme,
                      << "cursor", "selection_foreground", "foreground" >>,
                      Str(<< "#", "c", "0", "c", "a", "f", "5" >>))
        light == is_light_theme(bg)
        day_seed == pick_theme_color(theme, << "color11", "color3", "accent" >>, accent)
        night_seed == pick_theme_color(theme, << "color4", "accent", "color12" >>, accent)
    IN  [ bg |-> bg,
          fg |-> fg,
          accent |-> accent,
          cursor |-> cursor,
          dim |-> mix_hex(fg, bg, IF light THEN 440 ELSE 500),
          surface |-> mix_hex(bg, fg, IF light THEN 90 ELSE 110),
          surface2 |-> mix_hex(bg, fg, IF light THEN 160 ELSE 200),
          day |-> mix_hex(day_seed, Str(<< "#", "f", "f", "f", "f", "f", "f" >>),
                          IF light THEN 160 ELSE 280),
          night |-> mix_hex(bg, night_seed, IF light THEN 420 ELSE 340),
          red |-> pick_theme_color(theme, << "color1" >>,
                                   Str(<< "#", "e", "f", "4", "4", "4", "4" >>)),
          daylight_contrast |-> IF light THEN 145 ELSE 160,
          daylight_gamma |-> IF light THEN 110 ELSE 135 ]

(***************************************************************************)
(* The theme source, colors.toml.  A file is its open() outcome and its    *)
(* lines; a line is its form and, for a "key = value" line, the key and    *)
(* the characters of the value between the optional quotes.                *)
(***************************************************************************)
ThemeLine(form, key, val) == [form |-> form, key |-> key, val |-> val]

\* line_re: the key, "=", an optionally quoted #?[0-9a-fA-F]{6}, an optional comment
line_re(line) == line.form = "assign" /\ HEX_COLOR_RE(line.val)

RECURSIVE parse_theme_lines(_, _)
parse_theme_lines(lines, colors) ==
    IF lines = << >> THEN colors
    ELSE LET line == Head(lines)
         IN  IF line.form \in {"blank", "comment", "section"} \/ ~line_re(line)
             THEN parse_theme_lines(Tail(lines), colors)
             ELSE parse_theme_lines(Tail(lines),
                      (lower_key(line.key) :> normalize_hex(Str(line.val))) @@ colors)

\* the result is the exception that leaves the function, or "none", and the mapping
load_theme_colors(file) ==
    CASE file.open = "FileNotFoundError" ->
             [raised |-> "none", value |-> << >>]
      [] file.open \in {"PermissionError", "IsADirectoryError"} ->
             [raised |-> file.open, value |-> << >>]
      [] file.open = "ok" /\ ~file.decodable ->
             [raised |-> "UnicodeDecodeError", value |-> << >>]
      [] OTHER ->
             [raised |-> "none", value |-> parse_theme_lines(file.lines, << >>)]

(***************************************************************************)
(* Time.  An instant is a number of 20-second steps since 2026-10-22 00:00 *)
(* UTC (a Thursday); a timedelta of k / 180 hours is k steps.  The zone    *)
(* rules are those of the timezone database for the days around            *)
(* 2026-10-25, when Europe/Warsaw leaves daylight saving time at 01:00 UTC.*)
(***************************************************************************)
StepSeconds == 20

StepsPerMinute == 60 \div StepSeconds

StepsPerHour == 60 * StepsPerMinute

StepsPerDay == 24 * StepsPerHour

\* 2026-10-25 01:00 UTC
WarsawTransition == (3 * 24 + 1) * StepsPerHour

\* 2026-11-01 09:00 UTC
LosAngelesTransition == (10 * 24 + 9) * StepsPerHour

\* ZoneInfo(tz): the UTC offset in seconds and the abbreviation, before and from the
\* zone's transition
ZoneRules ==
    [ tz \in { "UTC", "Etc/UTC", "Europe/Warsaw", "America/Los_Angeles",
               "Australia/Brisbane", "Australia/Darwin" } |->
        CASE tz = "Europe/Warsaw" ->
                 [ at |-> WarsawTransition, before |-> 7200, after |-> 3600,
                   name_before |-> << "C", "E", "S", "T" >>,
                   name_after |-> << "C", "E", "T" >> ]
          [] tz = "America/Los_Angeles" ->
                 [ at |-> LosAngelesTransition, before |-> -25200, after |-> -28800,
                   name_before |-> << "P", "D", "T" >>,
                   name_after |-> << "P", "S", "T" >> ]
          [] tz = "Australia/Brisbane" ->
                 [ at |-> 0, before |-> 36000, after |-> 36000,
                   name_before |-> << "A", "E", "S", "T" >>,
                   name_after |-> << "A", "E", "S", "T" >> ]
          [] tz = "Australia/Darwin" ->
                 [ at |-> 0, before |-> 34200, after |-> 34200,
                   name_before |-> << "A", "C", "S", "T" >>,
                   name_after |-> << "A", "C", "S", "T" >> ]
          [] OTHER ->
                 [ at |-> 0, before |-> 0, after |-> 0,
                   name_before |-> << "U", "T", "C" >>,
                   name_after |-> << "U", "T", "C" >> ] ]

\* datetime.utcoffset().total_seconds() of the zone at an instant
utcoffset(tz, instant) ==
    IF instant < ZoneRules[tz].at THEN ZoneRules[tz].before ELSE ZoneRules[tz].after

\* datetime.tzname() of the zone at an instant
tzname(tz, instant) ==
    IF instant < ZoneRules[tz].at THEN ZoneRules[tz].name_before
    ELSE ZoneRules[tz].name_after

\* datetime.now(ZoneInfo(tz)) read at an instant: the zone's wall clock, in steps
wall_clock(tz, instant) == instant + utcoffset(tz, instant) \div StepSeconds

\* datetime.hour, datetime.minute and datetime.date() of a wall clock
hour_of(wall) == (wall \div StepsPerHour) % 24

minute_of(wall) == (wall \div StepsPerMinute) % 60

date_of(wall) == wall \div StepsPerDay

\* strftime("%H:%M")
strftime_HM(wall) ==
    Format02d(hour_of(wall)) \o << ":" >> \o Format02d(minute_of(wall))

WeekdayNames ==
    << << "T", "h", "u" >>, << "F", "r", "i" >>, << "S", "a", "t" >>,
       << "S", "u", "n" >>, << "M", "o", "n" >>, << "T", "u", "e" >>,
       << "W", "e", "d" >> >>

\* strftime("%a, %b %-d"), for the days 2026-10-22 .. 2026-10-31
strftime_date(wall) ==
    WeekdayNames[(date_of(wall) % 7) + 1]
        \o << ",", " ", "O", "c", "t", " " >> \o DecDigits(22 + date_of(wall))

(***************************************************************************)
(* The day/night mix.  A mix is in thousandths.                            *)
(***************************************************************************)
\* math.cos((hour - 12) / 12 * math.pi) for hour = 0..24, times 1000
CosTable ==
    << -1000, -966, -866, -707, -500, -259, 0, 259, 500, 707, 866, 966, 1000,
       966, 866, 707, 500, 259, 0, -259, -500, -707, -866, -966, -1000 >>

\* pow(m / 1000, 1.1) for m = 0..1000, times 1000
PowTable110 ==
    << 0, 1, 1, 2, 2, 3, 4, 4, 5, 6, 6, 7, 8, 8, 9, 10, 11, 11, 12, 13,
       14, 14, 15, 16, 17, 17, 18, 19, 20, 20, 21, 22, 23, 23, 24, 25, 26, 27, 27, 28,
       29, 30, 31, 31, 32, 33, 34, 35, 35, 36, 37, 38, 39, 40, 40, 41, 42, 43, 44, 44,
       45, 46, 47, 48, 49, 49, 50, 51, 52, 53, 54, 54, 55, 56, 57, 58, 59, 60, 60, 61,
       62, 63, 64, 65, 66, 66, 67, 68, 69, 70, 71, 72, 72, 73, 74, 75, 76, 77, 78, 79,
       79, 80, 81, 82, 83, 84, 85, 86, 86, 87, 88, 89, 90, 91, 92, 93, 94, 94, 95, 96,
       97, 98, 99, 100, 101, 102, 102, 103, 104, 105, 106, 107, 108, 109, 110, 111, 111, 112, 113, 114,
       115, 116, 117, 118, 119, 120, 120, 121, 122, 123, 124, 125, 126, 127, 128, 129, 130, 130, 131, 132,
       133, 134, 135, 136, 137, 138, 139, 140, 141, 141, 142, 143, 144, 145, 146, 147, 148, 149, 150, 151,
       152, 153, 153, 154, 155, 156, 157, 158, 159, 160, 161, 162, 163, 164, 165, 166, 167, 167, 168, 169,
       170, 171, 172, 173, 174, 175, 176, 177, 178, 179, 180, 181, 182, 182, 183, 184, 185, 186, 187, 188,
       189, 190, 191, 192, 193, 194, 195, 196, 197, 198, 199, 200, 200, 201, 202, 203, 204, 205, 206, 207,
       208, 209, 210, 211, 212, 213, 214, 215, 216, 217, 218, 219, 220, 221, 221, 222, 223, 224, 225, 226,
       227, 228, 229, 230, 231, 232, 233, 234, 235, 236, 237, 238, 239, 240, 241, 242, 243, 244, 245, 246,
       247, 248, 248, 249, 250, 251, 252, 253, 254, 255, 256, 257, 258, 259, 260, 261, 262, 263, 264, 265,
       266, 267, 268, 269, 270, 271, 272, 273, 274, 275, 276, 277, 278, 279, 280, 281, 282, 283, 284, 285,
       286, 287, 288, 288, 289, 290, 291, 292, 293, 294, 295, 296, 297, 298, 299, 300, 301, 302, 303, 304,
       305, 306, 307, 308, 309, 310, 311, 312, 313, 314, 315, 316, 317, 318, 319, 320, 321, 322, 323, 324,
       325, 326, 327, 328, 329, 330, 331, 332, 333, 334, 335, 336, 337, 338, 339, 340, 341, 342, 343, 344,
       345, 346, 347, 348, 349, 350, 351, 352, 353, 354, 355, 356, 357, 358, 359, 360, 361, 362, 363, 364,
       365, 366, 367, 368, 369, 370, 371, 372, 373, 374, 375, 376, 377, 378, 379, 380, 381, 382, 383, 384,
       385, 386, 387, 388, 389, 390, 391, 392, 393, 394, 395, 396, 397, 398, 399, 400, 401, 402, 403, 404,
       405, 406, 407, 408, 409, 410, 411, 412, 413, 414, 415, 416, 417, 419, 420, 421, 422, 423, 424, 425,
       426, 427, 428, 429, 430, 431, 432, 433, 434, 435, 436, 437, 438, 439, 440, 441, 442, 443, 444, 445,
       446, 447, 448, 449, 450, 451, 452, 453, 454, 455, 456, 457, 458, 459, 460, 461, 462, 463, 464, 465,
       467, 468, 469, 470, 471, 472, 473, 474, 475, 476, 477, 478, 479, 480, 481, 482, 483, 484, 485, 486,
       487, 488, 489, 490, 491, 492, 493, 494, 495, 496, 497, 498, 499, 500, 502, 503, 504, 505, 506, 507,
       508, 509, 510, 511, 512, 513, 514, 515, 516, 517, 518, 519, 520, 521, 522, 523, 524, 525, 526, 527,
       528, 529, 531, 532, 533, 534, 535, 536, 537, 538, 539, 540, 541, 542, 543, 544, 545, 546, 547, 548,
       549, 550, 551, 552, 553, 554, 556, 557, 558, 559, 560, 561, 562, 563, 564, 565, 566, 567, 568, 569,
       570, 571, 572, 573, 574, 575, 576, 577, 578, 580, 581, 582, 583, 584, 585, 586, 587, 588, 589, 590,
       591, 592, 593, 594, 595, 596, 597, 598, 599, 601, 602, 603, 604, 605, 606, 607, 608, 609, 610, 611,
       612, 613, 614, 615, 616, 617, 618, 619, 620, 622, 623, 624, 625, 626, 627, 628, 629, 630, 631, 632,
       633, 634, 635, 636, 637, 638, 639, 641, 642, 643, 644, 645, 646, 647, 648, 649, 650, 651, 652, 653,
       654, 655, 656, 657, 659, 660, 661, 662, 663, 664, 665, 666, 667, 668, 669, 670, 671, 672, 673, 674,
       675, 677, 678, 679, 680, 681, 682, 683, 684, 685, 686, 687, 688, 689, 690, 691, 692, 694, 695, 696,
       697, 698, 699, 700, 701, 702, 703, 704, 705, 706, 707, 708, 710, 711, 712, 713, 714, 715, 716, 717,
       718, 719, 720, 721, 722, 723, 724, 726, 727, 728, 729, 730, 731, 732, 733, 734, 735, 736, 737, 738,
       739, 740, 742, 743, 744, 745, 746, 747, 748, 749, 750, 751, 752, 753, 754, 755, 757, 758, 759, 760,
       761, 762, 763, 764, 765, 766, 767, 768, 769, 771, 772, 773, 774, 775, 776, 777, 778, 779, 780, 781,
       782, 783, 784, 786, 787, 788, 789, 790, 791, 792, 793, 794, 795, 796, 797, 798, 800, 801, 802, 803,
       804, 805, 806, 807, 808, 809, 810, 811, 813, 814, 815, 816, 817, 818, 819, 820, 821, 822, 823, 824,
       825, 827, 828, 829, 830, 831, 832, 833, 834, 835, 836, 837, 838, 840, 841, 842, 843, 844, 845, 846,
       847, 848, 849, 850, 851, 853, 854, 855, 856, 857, 858, 859, 860, 861, 862, 863, 864, 866, 867, 868,
       869, 870, 871, 872, 873, 874, 875, 876, 878, 879, 880, 881, 882, 883, 884, 885, 886, 887, 888, 889,
       891, 892, 893, 894, 895, 896, 897, 898, 899, 900, 901, 903, 904, 905, 906, 907, 908, 909, 910, 911,
       912, 913, 915, 916, 917, 918, 919, 920, 921, 922, 923, 924, 925, 927, 928, 929, 930, 931, 932, 933,
       934, 935, 936, 937, 939, 940, 941, 942, 943, 944, 945, 946, 947, 948, 950, 951, 952, 953, 954, 955,
       956, 957, 958, 959, 960, 962, 963, 964, 965, 966, 967, 968, 969, 970, 971, 973, 974, 975, 976, 977,
       978, 979, 980, 981, 982, 984, 985, 986, 987, 988, 989, 990, 991, 992, 993, 995, 996, 997, 998, 999,
       1000 >>

\* pow(m / 1000, 1.35) for m = 0..1000, times 1000
PowTable135 ==
    << 0, 0, 0, 0, 1, 1, 1, 1, 1, 2, 2, 2, 3, 3, 3, 3, 4, 4, 4, 5,
       5, 5, 6, 6, 7, 7, 7, 8, 8, 8, 9, 9, 10, 10, 10, 11, 11, 12, 12, 13,
       13, 13, 14, 14, 15, 15, 16, 16, 17, 17, 18, 18, 18, 19, 19, 20, 20, 21, 21, 22,
       22, 23, 23, 24, 24, 25, 25, 26, 27, 27, 28, 28, 29, 29, 30, 30, 31, 31, 32, 32,
       33, 34, 34, 35, 35, 36, 36, 37, 38, 38, 39, 39, 40, 40, 41, 42, 42, 43, 43, 44,
       45, 45, 46, 46, 47, 48, 48, 49, 50, 50, 51, 51, 52, 53, 53, 54, 55, 55, 56, 56,
       57, 58, 58, 59, 60, 60, 61, 62, 62, 63, 64, 64, 65, 66, 66, 67, 68, 68, 69, 70,
       70, 71, 72, 72, 73, 74, 74, 75, 76, 77, 77, 78, 79, 79, 80, 81, 81, 82, 83, 84,
       84, 85, 86, 86, 87, 88, 89, 89, 90, 91, 91, 92, 93, 94, 94, 95, 96, 97, 97, 98,
       99, 100, 100, 101, 102, 102, 103, 104, 105, 105, 106, 107, 108, 109, 109, 110, 111, 112, 112, 113,
       114, 115, 115, 116, 117, 118, 119, 119, 120, 121, 122, 122, 123, 124, 125, 126, 126, 127, 128, 129,
       130, 130, 131, 132, 133, 133, 134, 135, 136, 137, 138, 138, 139, 140, 141, 142, 142, 143, 144, 145,
       146, 146, 147, 148, 149, 150, 151, 151, 152, 153, 154, 155, 156, 156, 157, 158, 159, 160, 161, 161,
       162, 163, 164, 165, 166, 166, 167, 168, 169, 170, 171, 172, 172, 173, 174, 175, 176, 177, 178, 178,
       179, 180, 181, 182, 183, 184, 185, 185, 186, 187, 188, 189, 190, 191, 192, 192, 193, 194, 195, 196,
       197, 198, 199, 200, 200, 201, 202, 203, 204, 205, 206, 207, 208, 208, 209, 210, 211, 212, 213, 214,
       215, 216, 217, 217, 218, 219, 220, 221, 222, 223, 224, 225, 226, 227, 228, 228, 229, 230, 231, 232,
       233, 234, 235, 236, 237, 238, 239, 240, 241, 241, 242, 243, 244, 245, 246, 247, 248, 249, 250, 251,
       252, 253, 254, 255, 256, 257, 257, 258, 259, 260, 261, 262, 263, 264, 265, 266, 267, 268, 269, 270,
       271, 272, 273, 274, 275, 276, 277, 278, 279, 280, 281, 281, 282, 283, 284, 285, 286, 287, 288, 289,
       290, 291, 292, 293, 294, 295, 296, 297, 298, 299, 300, 301, 302, 303, 304, 305, 306, 307, 308, 309,
       310, 311, 312, 313, 314, 315, 316, 317, 318, 319, 320, 321, 322, 323, 324, 325, 326, 327, 328, 329,
       330, 331, 332, 333, 334, 335, 336, 337, 338, 339, 340, 341, 342, 343, 344, 345, 346, 347, 348, 349,
       351, 352, 353, 354, 355, 356, 357, 358, 359, 360, 361, 362, 363, 364, 365, 366, 367, 368, 369, 370,
       371, 372, 373, 374, 375, 376, 378, 379, 380, 381, 382, 383, 384, 385, 386, 387, 388, 389, 390, 391,
       392, 393, 394, 395, 397, 398, 399, 400, 401, 402, 403, 404, 405, 406, 407, 408, 409, 410, 411, 413,
       414, 415, 416, 417, 418, 419, 420, 421, 422, 423, 424, 425, 427, 428, 429, 430, 431, 432, 433, 434,
       435, 436, 437, 439, 440, 441, 442, 443, 444, 445, 446, 447, 448, 449, 451, 452, 453, 454, 455, 456,
       457, 458, 459, 460, 462, 463, 464, 465, 466, 467, 468, 469, 470, 472, 473, 474, 475, 476, 477, 478,
       479, 480, 482, 483, 484, 485, 486, 487, 488, 489, 491, 492, 493, 494, 495, 496, 497, 498, 500, 501,
       502, 503, 504, 505, 506, 507, 509, 510, 511, 512, 513, 514, 515, 517, 518, 519, 520, 521, 522, 523,
       524, 526, 527, 528, 529, 530, 531, 532, 534, 535, 536, 537, 538, 539, 541, 542, 543, 544, 545, 546,
       547, 549, 550, 551, 552, 553, 554, 556, 557, 558, 559, 560, 561, 563, 564, 565, 566, 567, 568, 570,
       571, 572, 573, 574, 575, 577, 578, 579, 580, 581, 582, 584, 585, 586, 587, 588, 589, 591, 592, 593,
       594, 595, 596, 598, 599, 600, 601, 602, 604, 605, 606, 607, 608, 610, 611, 612, 613, 614, 615, 617,
       618, 619, 620, 621, 623, 624, 625, 626, 627, 629, 630, 631, 632, 633, 635, 636, 637, 638, 639, 641,
       642, 643, 644, 645, 647, 648, 649, 650, 651, 653, 654, 655, 656, 657, 659, 660, 661, 662, 664, 665,
       666, 667, 668, 670, 671, 672, 673, 675, 676, 677, 678, 679, 681, 682, 683, 684, 685, 687, 688, 689,
       690, 692, 693, 694, 695, 697, 698, 699, 700, 701, 703, 704, 705, 706, 708, 709, 710, 711, 713, 714,
       715, 716, 718, 719, 720, 721, 722, 724, 725, 726, 727, 729, 730, 731, 732, 734, 735, 736, 737, 739,
       740, 741, 742, 744, 745, 746, 747, 749, 750, 751, 752, 754, 755, 756, 757, 759, 760, 761, 762, 764,
       765, 766, 767, 769, 770, 771, 773, 774, 775, 776, 778, 779, 780, 781, 783, 784, 785, 786, 788, 789,
       790, 792, 793, 794, 795, 797, 798, 799, 800, 802, 803, 804, 806, 807, 808, 809, 811, 812, 813, 814,
       816, 817, 818, 820, 821, 822, 823, 825, 826, 827, 829, 830, 831, 832, 834, 835, 836, 838, 839, 840,
       841, 843, 844, 845, 847, 848, 849, 851, 852, 853, 854, 856, 857, 858, 860, 861, 862, 864, 865, 866,
       867, 869, 870, 871, 873, 874, 875, 877, 878, 879, 880, 882, 883, 884, 886, 887, 888, 890, 891, 892,
       894, 895, 896, 897, 899, 900, 901, 903, 904, 905, 907, 908, 909, 911, 912, 913, 915, 916, 917, 919,
       920, 921, 923, 924, 925, 926, 928, 929, 930, 932, 933, 934, 936, 937, 938, 940, 941, 942, 944, 945,
       946, 948, 949, 950, 952, 953, 954, 956, 957, 958, 960, 961, 962, 964, 965, 966, 968, 969, 970, 972,
       973, 974, 976, 977, 978, 980, 981, 982, 984, 985, 987, 988, 989, 991, 992, 993, 995, 996, 997, 999,
       1000 >>

(***************************************************************************)
(* The state                                                               *)
(***************************************************************************)
VARIABLES
    pc,            \* "import", "crashed", "main", "running"; "pure" in SpecPure
    theme_file,    \* ~/.config/omarchy/current/theme/colors.toml
    config_file,   \* ~/.config/omarchy-timezones/cities.json
    clock,         \* the instant datetime.now() reads
    TC,            \* module global TC
    THEME,         \* module global THEME
    DAY_RGB,       \* module global DAY_RGB
    NIGHT_RGB,     \* module global NIGHT_RGB
    LOCAL_TZ,      \* module global LOCAL_TZ
    cities,        \* TimezonesPopup.cities
    rows,          \* TimezonesPopup.rows, the CityRow widgets
    slider_value,  \* the value of the Gtk.Scale TimezonesPopup.slider
    slider_offset, \* TimezonesPopup.slider_offset
    offset_label,  \* TimezonesPopup.offset_label: its text and its "shifted" class
    status_strip,  \* TimezonesPopup.status_strip
    input,         \* SpecPure: the function applied and its arguments
    ret,           \* SpecPure: what the function returned
    pidfile,       \* $XDG_RUNTIME_DIR/omarchy-timezones.pid: None, or its text
    procs,         \* the launched processes, by PID: where each is in main()
    concurrent     \* whether a launch began while another was still starting up

vars == << pc, theme_file, config_file, clock, TC, THEME, DAY_RGB, NIGHT_RGB, LOCAL_TZ,
           cities, rows, slider_value, slider_offset, offset_label, status_strip,
           input, ret, pidfile, procs, concurrent >>

\* the PID file and the processes of the launches
launches == << pidfile, procs, concurrent >>

\* the module globals, which no handler assigns
globals == << TC, THEME, DAY_RGB, NIGHT_RGB, LOCAL_TZ >>

\* the files and the clock
environment == << theme_file, config_file, clock, launches >>

DAYLIGHT_CONTRAST == THEME.daylight_contrast

DAYLIGHT_GAMMA == THEME.daylight_gamma

\* max(0.0, min(1.0, mix))
clamp01(mix) == IF mix < 0 THEN 0 ELSE IF mix > 1000 THEN 1000 ELSE mix

\* pow(mix, DAYLIGHT_GAMMA) for mix in 0..1000
pow_gamma(mix) == IF DAYLIGHT_GAMMA = 110 THEN PowTable110[mix + 1] ELSE PowTable135[mix + 1]

\* contrast_mix without the two clamps
contrast_mix_unclamped(mix) ==
    LET stretched == ((mix - 500) * DAYLIGHT_CONTRAST + 50) \div 100 + 500
    IN  IF stretched \in 0..1000 THEN pow_gamma(stretched) ELSE stretched

contrast_mix(mix) ==
    LET stretched == ((mix - 500) * DAYLIGHT_CONTRAST + 50) \div 100 + 500
    IN  clamp01(pow_gamma(clamp01(stretched)))

\* daylight_mix with the sign of the cosine lost
daylight_mix_inverted(hour) == contrast_mix((1000 - CosTable[hour + 1]) \div 2)

daylight_mix(hour) == contrast_mix((CosTable[hour + 1] + 1000) \div 2)

daylight_rgb(hour) == blend_rgb(NIGHT_RGB, DAY_RGB, daylight_mix(hour))

daylight_hex(hour) == rgb_to_hex(daylight_rgb(hour))

(***************************************************************************)
(* Labels                                                                  *)
(***************************************************************************)
\* the character U+00B7
MIDDLE_DOT == "<U+00B7>"

abs(n) == IF n < 0 THEN -n ELSE n

\* format(n, "+d")
FormatPlusD(n) == (IF n < 0 THEN << "-" >> ELSE << "+" >>) \o DecDigits(abs(n))

\* get_offset_str taking the sign from diff_h
offset_str_of_hour_sign(diff_secs) ==
    LET diff_h == Trunc(diff_secs, 3600)
        diff_m == Trunc(abs(diff_secs) % 3600, 60)
        sign == IF diff_h >= 0 THEN << "+" >> ELSE << "-" >>
    IN  IF diff_h = 0 /\ diff_m = 0 THEN << "L", "o", "c", "a", "l" >>
        ELSE IF diff_m = 0 THEN FormatPlusD(diff_h) \o << "h" >>
        ELSE sign \o DecDigits(abs(diff_h)) \o << "h" >> \o Format02d(diff_m) \o << "m" >>

\* get_offset_str from diff_secs on
offset_str_of(diff_secs) ==
    LET diff_h == Trunc(diff_secs, 3600)
        diff_m == Trunc(abs(diff_secs) % 3600, 60)
        sign == IF diff_secs >= 0 THEN << "+" >> ELSE << "-" >>
    IN  IF diff_h = 0 /\ diff_m = 0 THEN << "L", "o", "c", "a", "l" >>
        ELSE IF diff_m = 0 THEN FormatPlusD(diff_h) \o << "h" >>
        ELSE sign \o DecDigits(abs(diff_h)) \o << "h" >> \o Format02d(diff_m) \o << "m" >>

\* now is the instant datetime.now() reads
get_offset_str(remote_tz, now) ==
    LET local_off == utcoffset(LOCAL_TZ, now)
        remote_off == utcoffset(remote_tz, now)
    IN  offset_str_of(remote_off - local_off)

get_gmt_label(remote_tz, now) ==
    LET total_secs == utcoffset(remote_tz, now)
        sign == IF total_secs > 0 THEN << "+" >> ELSE << "-" >>
        hours == abs(total_secs) \div 3600
        minutes == (abs(total_secs) % 3600) \div 60
    IN  IF total_secs = 0 THEN << "U", "T", "C" >>
        ELSE IF minutes # 0
        THEN << "G", "M", "T", " " >> \o sign \o DecDigits(hours)
                 \o << ":" >> \o Format02d(minutes)
        ELSE << "G", "M", "T", " " >> \o sign \o DecDigits(hours)

get_tz_name_label(remote_tz, now) ==
    LET name == tzname(remote_tz, now)
    IN  IF name # << >> THEN name ELSE get_gmt_label(remote_tz, now)

format_offset_label(remote_tz, now) ==
    get_offset_str(remote_tz, now) \o << " ", MIDDLE_DOT, " ", "(" >>
        \o get_tz_name_label(remote_tz, now) \o << ")" >>

\* int(hours_offset * 60), without round
total_minutes_truncated(k) == Trunc(k, StepsPerMinute)

\* int(round(hours_offset * 60)) for hours_offset = k / 180
total_minutes_of(k) == (2 * k + StepsPerMinute) \div (2 * StepsPerMinute)

\* hours_offset is in steps, k / 180 hours
format_slider_label(hours_offset, now) ==
    LET local_now == wall_clock(LOCAL_TZ, now)
        target_time == local_now + hours_offset
        time_str == strftime_HM(target_time)
        total_minutes == total_minutes_of(hours_offset)
        sign == IF total_minutes > 0 THEN << "+" >> ELSE << "-" >>
        abs_minutes == abs(total_minutes)
        hours == abs_minutes \div 60
        minutes == abs_minutes % 60
        rel == IF hours # 0 /\ minutes # 0
               THEN sign \o DecDigits(hours) \o << "h" >> \o Format02d(minutes) \o << "m" >>
               ELSE IF hours # 0 THEN sign \o DecDigits(hours) \o << "h" >>
               ELSE sign \o DecDigits(minutes) \o << "m" >>
    IN  IF total_minutes = 0
        THEN time_str \o << " ", MIDDLE_DOT, " ", "N", "o", "w" >>
        ELSE time_str \o << " ", MIDDLE_DOT, " " >> \o rel
                 \o << " ", "f", "r", "o", "m", " ", "n", "o", "w" >>

(***************************************************************************)
(* Persistence                                                             *)
(***************************************************************************)
City(flag, city, tz) == [flag |-> flag, city |-> city, tz |-> tz]

DEFAULT_CITIES ==
    << City("US", "San Francisco", "America/Los_Angeles"),
       City("PL", "Warsaw", "Europe/Warsaw"),
       City("AU", "Brisbane", "Australia/Brisbane") >>

load_cities(file) ==
    IF file.kind = "list" /\ Len(file.data) > 0 THEN file.data ELSE DEFAULT_CITIES

save_cities(city_list) == [kind |-> "list", data |-> city_list]

(***************************************************************************)
(* Widgets                                                                 *)
(***************************************************************************)
\* segments = 48 in StatusStrip._draw
Segments == 48

\* StatusStrip(tz_list); set_draw_func leaves the first draw pending
StatusStrip(tz_list) ==
    [ tz_list |-> tz_list, offset_hours |-> 0, queued |-> TRUE,
      drawn |-> << >>, drawn_at |-> 0 ]

\* the hour StatusStrip._get_average_daylight reads for one zone:
\* now = datetime.now(tz) + timedelta(hours=offset_hours);
\* t = now + timedelta(hours=hour_offset); t.hour
StatusStrip_hour(tz, offset_hours, hour_offset, at) ==
    LET now == wall_clock(tz, at) + offset_hours
        t == now + hour_offset * StepsPerHour
    IN  hour_of(t)

RECURSIVE total_daylight(_, _, _, _)
\* the loop of StatusStrip._get_average_daylight: total over the zones
total_daylight(tz_list, offset_hours, hour_offset, at) ==
    IF tz_list = << >> THEN 0
    ELSE daylight_mix(StatusStrip_hour(Head(tz_list), offset_hours, hour_offset, at))
             + total_daylight(Tail(tz_list), offset_hours, hour_offset, at)

StatusStrip_get_average_daylight(self, hour_offset, at) ==
    IF self.tz_list = << >> THEN 500
    ELSE total_daylight(self.tz_list, self.offset_hours, hour_offset, at)
             \div Len(self.tz_list)

\* StatusStrip._draw with the segments counted from 1
StatusStrip_draw_from_one(self, at) ==
    [ i \in 1..Segments |->
        LET hour_offset == -24 + i
            mix == contrast_mix(StatusStrip_get_average_daylight(self, hour_offset, at))
        IN  blend_rgb(NIGHT_RGB, DAY_RGB, mix) ]

\* ZoneInfo(key): the exception it raises, "none" for a key the database resolves.
\* A key that is not a normalized relative path is a ValueError, any other unknown key
\* a ZoneInfoNotFoundError; the message of either carries the key
ZoneInfo(key) ==
    IF key \in DOMAIN ZoneRules THEN [raised |-> "none", key |-> key]
    ELSE IF key = "" \/ key = "/etc/localtime" THEN [raised |-> "ValueError", key |-> key]
    ELSE [raised |-> "ZoneInfoNotFoundError", key |-> key]

RECURSIVE average_daylight_loop(_, _, _, _, _)
\* the loop of StatusStrip._get_average_daylight with ZoneInfo(tz) raising: the
\* exception of the first zone that has one ends the loop
average_daylight_loop(tz_list, offset_hours, hour_offset, at, total) ==
    IF tz_list = << >> THEN [raised |-> "none", key |-> "", total |-> total]
    ELSE LET zone == ZoneInfo(Head(tz_list))
         IN  IF zone.raised # "none"
             THEN [raised |-> zone.raised, key |-> zone.key, total |-> total]
             ELSE average_daylight_loop(
                      Tail(tz_list), offset_hours, hour_offset, at,
                      total + daylight_mix(
                          StatusStrip_hour(Head(tz_list), offset_hours, hour_offset, at)))

\* _get_average_daylight with a try / except around ZoneInfo(tz) that skips the zone
StatusStrip_get_average_daylight_skipping(self, hour_offset, at) ==
    LET kept == SelectSeq(self.tz_list, LAMBDA tz : ZoneInfo(tz).raised = "none")
    IN  [ raised |-> "none", key |-> "",
          value |-> IF kept = << >> THEN Num(500)
                    ELSE Num(total_daylight(kept, self.offset_hours, hour_offset, at)
                                 \div Len(kept)) ]

\* a call of StatusStrip._get_average_daylight: the exception that leaves it, with the
\* key it carries, or the value returned
StatusStrip_get_average_daylight_call(self, hour_offset, at) ==
    IF self.tz_list = << >> THEN [raised |-> "none", key |-> "", value |-> Num(500)]
    ELSE LET r == average_daylight_loop(self.tz_list, self.offset_hours, hour_offset, at, 0)
         IN  IF r.raised # "none"
             THEN [raised |-> r.raised, key |-> r.key, value |-> None]
             ELSE [raised |-> "none", key |-> "",
                   value |-> Num(r.total \div Len(self.tz_list))]

\* the colours StatusStrip._draw fills the segments with, left to right
StatusStrip_draw(self, at) ==
    [ i \in 1..Segments |->
        LET hour_offset == -24 + (i - 1)
            mix == contrast_mix(StatusStrip_get_average_daylight(self, hour_offset, at))
        IN  blend_rgb(NIGHT_RGB, DAY_RGB, mix) ]

\* CityRow.update; at is the instant datetime.now() reads
CityRow_update(row, slider_offset_hours, at) ==
    LET now == wall_clock(row.tz, at) + slider_offset_hours
        local_now == wall_clock(LOCAL_TZ, at) + slider_offset_hours
        differs == date_of(now) # date_of(local_now)
    IN  [ row EXCEPT
            !.time_label = strftime_HM(now),
            !.date_label = IF differs THEN strftime_date(now) ELSE @,
            !.date_visible = differs,
            !.dot = daylight_hex(hour_of(now)),
            !.period = IF daylight_mix(hour_of(now)) >= 500 THEN "Day" ELSE "Night",
            !.offset_label = format_offset_label(row.tz, at),
            !.updated_at = at,
            !.updated_with = slider_offset_hours ]

\* CityRow(flag, city, tz): the constructor ends with update(0.0)
CityRow(c, at) ==
    CityRow_update(
        [ tz |-> c.tz, flag |-> c.flag, city |-> c.city,
          time_label |-> << "-", "-", ":", "-", "-" >>,
          date_label |-> << >>, date_visible |-> TRUE,
          dot |-> Str(<< >>), period |-> "",
          offset_label |-> format_offset_label(c.tz, at),
          updated_at |-> at, updated_with |-> 0 ],
        0, at)

\* TimezonesPopup._rebuild_city_rows
rebuild_city_rows(city_list, offset, at) ==
    [ i \in 1..Len(city_list) |-> CityRow_update(CityRow(city_list[i], at), offset, at) ]

tz_list_of(city_list) == [ i \in 1..Len(city_list) |-> city_list[i].tz ]

RECURSIVE without_tz(_, _)
\* [(f, c, t) for f, c, t in cities if t != tz]
without_tz(city_list, tz) ==
    IF city_list = << >> THEN << >>
    ELSE IF Head(city_list).tz = tz THEN without_tz(Tail(city_list), tz)
    ELSE << Head(city_list) >> \o without_tz(Tail(city_list), tz)

(***************************************************************************)
(* Bounds and the environment's choices                                    *)
(***************************************************************************)
\* the longest city list the user's additions build
MaxCities == 2

\* how many times the clock advances
MaxClockSteps == 2

\* the most lines a theme file holds
MaxThemeLines == 2

\* the most keys a theme mapping given to the theme functions holds
MaxThemeKeys == 2

\* the largest difference of two UTC offsets, in minutes
MaxDiffMinutes == 1560

\* utcoffset() is exact to the second and the zone database has offsets that are not
\* whole minutes (Africa/Monrovia -0:44:30 until 1972, Africa/Kigali +2:00:16 before
\* 1935): the differences get_offset_str is also given second by second, up to this
MaxDiffSeconds == 90

\* the longest zone list the strip's aggregation is called with on its own
MaxStripZones == 3

\* how far below 0 and above 1, in thousandths, the mixes given to contrast_mix go
MaxMixExcess == 1500

\* 2026-10-25 00:00 UTC, one hour before Europe/Warsaw's transition
ClockStart == WarsawTransition - StepsPerHour

ClockStep == StepsPerHour \div 2

\* what get_local_tz() can return
LocalZones == { "UTC", "Europe/Warsaw" }

\* the cities the search box offers
Catalogue ==
    { City("US", "San Francisco", "America/Los_Angeles"),
      City("PL", "Warsaw", "Europe/Warsaw"),
      City("AU", "Brisbane", "Australia/Brisbane"),
      City("AU", "Darwin", "Australia/Darwin") }

\* upper = 24 and lower = -24 of the slider's Gtk.Adjustment, in hours
SLIDER_RANGE == 24

\* the slider positions the user moves to, in steps: -24 h, -15 min, 0, +1.5 h
SliderValues == { -SLIDER_RANGE * StepsPerHour, -45, 0, 270 }

ThemeFile(open, decodable, lines) ==
    [open |-> open, decodable |-> decodable, lines |-> lines]

\* the lines theme files are made of
ThemeLines ==
    { ThemeLine("comment", "", << >>),
      ThemeLine("other", "", << >>),
      ThemeLine("assign", "Background", << "#", "F", "A", "F", "A", "F", "A" >>),
      ThemeLine("assign", "background", << "1", "0", "1", "0", "2", "0" >>),
      ThemeLine("assign", "accent", << "#", "f", "f", "f" >>),
      ThemeLine("assign", "Color4", << "#", "3", "5", "8", "4", "E", "4" >>) }

MissingThemeFile == ThemeFile("FileNotFoundError", TRUE, << >>)

LightThemeFile ==
    ThemeFile("ok", TRUE,
        << ThemeLine("section", "", << >>),
           ThemeLine("assign", "Background", << "#", "F", "A", "F", "A", "F", "A" >>),
           ThemeLine("blank", "", << >>),
           ThemeLine("assign", "FOREGROUND", << "2", "0", "2", "0", "3", "0" >>),
           ThemeLine("assign", "Color4", << "#", "3", "5", "8", "4", "E", "4" >>) >>)

ThemeFiles ==
    { MissingThemeFile,
      LightThemeFile,
      ThemeFile("PermissionError", TRUE, << >>),
      ThemeFile("IsADirectoryError", TRUE, << >>),
      ThemeFile("ok", FALSE, << >>) }
    \cup { ThemeFile("ok", TRUE, lines) :
             lines \in UNION { [1..n -> ThemeLines] : n \in 0..MaxThemeLines } }

MissingConfigFile == [kind |-> "missing", data |-> << >>]

NoInput == [fn |-> "none"]

(***************************************************************************)
(* Processes and the PID file                                              *)
(***************************************************************************)
\* the launches a behaviour has at most
MaxLaunches == 4

\* os.getpid() of the launches, handed out in order
Pids == 1..MaxLaunches

\* the PID of the popup whose handlers Spec follows
PopupPid == 1

\* a process of a launch: pc is where it is in main(), old_pid what it read from the
\* PID file, signalled whether a SIGTERM was sent to it, orphaned whether the file it
\* holds open for writing has been unlinked since
Proc(at) == [pc |-> at, old_pid |-> 0, signalled |-> FALSE, orphaned |-> FALSE]

NoProcs == [p \in Pids |-> Proc("unborn")]

\* f.write(str(os.getpid()))
PidText(p) == Str(DecDigits(p))

(***************************************************************************)
(* The program: import of the module, then the popup and its handlers      *)
(***************************************************************************)
\* the state the interpreter starts the module in
InitStartup ==
    /\ pc = "import"
    /\ theme_file \in ThemeFiles
    /\ config_file = MissingConfigFile
    /\ clock = ClockStart
    /\ TC = << >>
    /\ THEME = None
    /\ DAY_RGB = << >>
    /\ NIGHT_RGB = << >>
    /\ LOCAL_TZ = ""
    /\ cities = << >>
    /\ rows = << >>
    /\ slider_value = 0
    /\ slider_offset = 0
    /\ offset_label = [text |-> << >>, shifted |-> FALSE]
    /\ status_strip = None
    /\ input = NoInput
    /\ ret = None
    /\ pidfile = None
    /\ procs = NoProcs
    /\ concurrent = FALSE

\* module level: TC = load_theme_colors(); THEME = build_semantic_theme(TC);
\* DAY_RGB, NIGHT_RGB; LOCAL_TZ = get_local_tz()
ImportModule ==
    /\ pc = "import"
    /\ LET r == load_theme_colors(theme_file)
       IN  IF r.raised # "none"
           THEN /\ pc' = "crashed"
                /\ UNCHANGED globals
           ELSE /\ pc' = "main"
                /\ TC' = r.value
                /\ THEME' = build_semantic_theme(r.value)
                /\ DAY_RGB' = hex_to_rgb(THEME'.day)
                /\ NIGHT_RGB' = hex_to_rgb(THEME'.night)
                /\ \E tz \in LocalZones : LOCAL_TZ' = tz
    /\ UNCHANGED << environment, cities, rows, slider_value, slider_offset,
                    offset_label, status_strip, input, ret >>

\* the state main() constructs the popup in: the module is imported, with the theme
\* source missing or a light theme
Init ==
    /\ pc = "main"
    /\ theme_file \in { MissingThemeFile, LightThemeFile }
    /\ config_file = MissingConfigFile
    /\ clock = ClockStart
    /\ TC = load_theme_colors(theme_file).value
    /\ THEME = build_semantic_theme(TC)
    /\ DAY_RGB = hex_to_rgb(THEME.day)
    /\ NIGHT_RGB = hex_to_rgb(THEME.night)
    /\ LOCAL_TZ \in LocalZones
    /\ cities = << >>
    /\ rows = << >>
    /\ slider_value = 0
    /\ slider_offset = 0
    /\ offset_label = [text |-> << >>, shifted |-> FALSE]
    /\ status_strip = None
    /\ input = NoInput
    /\ ret = None
    /\ pidfile = PidText(PopupPid)
    /\ procs = [NoProcs EXCEPT ![PopupPid] = Proc("running")]
    /\ concurrent = FALSE

\* main() of a launch that finds no PID file and meets no other launch, as one step:
\* the PID is written, the handlers are installed and app.run() is entered
RunMain ==
    /\ pc = "main"
    /\ procs[PopupPid].pc = "unborn"
    /\ pidfile = None
    /\ pidfile' = PidText(PopupPid)
    /\ procs' = [procs EXCEPT ![PopupPid] = Proc("running")]
    /\ UNCHANGED << pc, theme_file, config_file, clock, concurrent, globals, cities, rows,
                    slider_value, slider_offset, offset_label, status_strip, input, ret >>

\* TimezonesPopup.do_activate
Activate ==
    /\ pc = "main"
    /\ procs[PopupPid].pc = "running"
    /\ pc' = "running"
    /\ cities' = load_cities(config_file)
    /\ rows' = rebuild_city_rows(cities', slider_offset, clock)
    /\ offset_label' = [text |-> format_slider_label(0, clock), shifted |-> FALSE]
    /\ slider_value' = 0
    /\ status_strip' = StatusStrip(tz_list_of(cities'))
    /\ UNCHANGED << environment, globals, slider_offset, input, ret >>

\* the popup is up and no redraw is pending
idle == pc = "running" /\ ~status_strip.queued

\* _on_city_added without the search for the zone among the cities
OnCityAdded_unchecked(c) ==
    /\ idle
    /\ Len(cities) < MaxCities
    /\ cities' = Append(cities, c)
    /\ config_file' = save_cities(cities')
    /\ rows' = rebuild_city_rows(cities', slider_offset, clock)
    /\ status_strip' = [status_strip EXCEPT !.tz_list = tz_list_of(cities'),
                                            !.queued = TRUE]
    /\ UNCHANGED << pc, theme_file, clock, launches, globals, slider_value,
                    slider_offset, offset_label, input, ret >>

\* TimezonesPopup._on_city_added
OnCityAdded(c) ==
    /\ idle
    /\ IF \E i \in 1..Len(cities) : cities[i].tz = c.tz
       THEN UNCHANGED << cities, config_file, rows, status_strip >>
       ELSE /\ Len(cities) < MaxCities
            /\ cities' = Append(cities, c)
            /\ config_file' = save_cities(cities')
            /\ rows' = rebuild_city_rows(cities', slider_offset, clock)
            /\ status_strip' = [status_strip EXCEPT !.tz_list = tz_list_of(cities'),
                                                    !.queued = TRUE]
    /\ UNCHANGED << pc, theme_file, clock, launches, globals, slider_value,
                    slider_offset, offset_label, input, ret >>

\* TimezonesPopup._on_city_removed, for the row at index i
OnCityRemoved(i) ==
    /\ idle
    /\ i \in 1..Len(rows)
    /\ cities' = without_tz(cities, rows[i].tz)
    /\ config_file' = save_cities(cities')
    /\ rows' = rebuild_city_rows(cities', slider_offset, clock)
    /\ status_strip' = [status_strip EXCEPT !.tz_list = tz_list_of(cities'),
                                            !.queued = TRUE]
    /\ UNCHANGED << pc, theme_file, clock, launches, globals, slider_value,
                    slider_offset, offset_label, input, ret >>

\* _on_slider_changed without the snap to 0
slider_set_value_unsnapped(v) ==
    /\ slider_value' = v
    /\ slider_offset' = v
    /\ offset_label' = [text |-> format_slider_label(v, clock), shifted |-> v # 0]
    /\ rows' = [i \in 1..Len(rows) |-> CityRow_update(rows[i], v, clock)]
    /\ status_strip' = [status_strip EXCEPT !.offset_hours = v, !.queued = TRUE]

\* the slider's value becomes v and "value-changed" runs _on_slider_changed
slider_set_value(v) ==
    LET val == IF abs(v) < (3 * StepsPerHour) \div 10 THEN 0 ELSE v
    IN  /\ slider_value' = v
        /\ slider_offset' = val
        /\ offset_label' = [text |-> format_slider_label(val, clock),
                            shifted |-> val # 0]
        /\ rows' = [i \in 1..Len(rows) |-> CityRow_update(rows[i], val, clock)]
        /\ status_strip' = [status_strip EXCEPT !.offset_hours = val, !.queued = TRUE]

\* the user moves the slider: TimezonesPopup._on_slider_changed
OnSliderChanged(v) ==
    /\ idle
    /\ v # slider_value
    /\ slider_set_value(v)
    /\ UNCHANGED << pc, environment, globals, cities, input, ret >>

\* TimezonesPopup._on_now_clicked: slider.set_value(0)
OnNowClicked ==
    /\ idle
    /\ IF slider_value # 0
       THEN slider_set_value(0)
       ELSE UNCHANGED << slider_value, slider_offset, offset_label, rows, status_strip >>
    /\ UNCHANGED << pc, environment, globals, cities, input, ret >>

\* _tick writing the city list back as well
Tick_saving ==
    /\ idle
    /\ rows' = [i \in 1..Len(rows) |-> CityRow_update(rows[i], slider_offset, clock)]
    /\ status_strip' = [status_strip EXCEPT !.queued = TRUE]
    /\ config_file' = save_cities(cities)
    /\ UNCHANGED << pc, theme_file, clock, launches, globals, cities, slider_value,
                    slider_offset, offset_label, input, ret >>

\* TimezonesPopup._tick
Tick ==
    /\ idle
    /\ rows' = [i \in 1..Len(rows) |-> CityRow_update(rows[i], slider_offset, clock)]
    /\ status_strip' = [status_strip EXCEPT !.queued = TRUE]
    /\ UNCHANGED << pc, environment, globals, cities, slider_value, slider_offset,
                    offset_label, input, ret >>

\* the frame clock runs the queued redraw, StatusStrip._draw, before the main loop
\* dispatches the next event: idle is the guard of every handler
Draw ==
    /\ pc = "running"
    /\ status_strip.queued
    /\ status_strip' = [status_strip EXCEPT !.queued = FALSE,
                                            !.drawn = StatusStrip_draw(status_strip, clock),
                                            !.drawn_at = clock]
    /\ UNCHANGED << pc, environment, globals, cities, rows, slider_value,
                    slider_offset, offset_label, input, ret >>

\* time passes
ClockAdvance ==
    /\ idle
    /\ clock < ClockStart + MaxClockSteps * ClockStep
    /\ clock' = clock + ClockStep
    /\ UNCHANGED << pc, theme_file, config_file, launches, globals, cities, rows,
                    slider_value, slider_offset, offset_label, status_strip, input, ret >>

Next ==
    \/ Activate
    \/ \E c \in Catalogue : OnCityAdded(c)
    \/ \E i \in 1..(MaxCities + 1) : OnCityRemoved(i)
    \/ \E v \in SliderValues : OnSliderChanged(v)
    \/ OnNowClicked
    \/ Tick
    \/ Draw
    \/ ClockAdvance

Spec == Init /\ [][Next]_vars

NextStartup == ImportModule \/ RunMain \/ Activate

SpecStartup == InitStartup /\ [][NextStartup]_vars

(***************************************************************************)
(* Launches: main() of every launched process, step by step, around the    *)
(* PID file.  The popup's window and handlers are left aside: a process    *)
(* that reached app.run() is "running".                                    *)
(***************************************************************************)
\* the popup's own variables, which no step of main() assigns
popup == << pc, theme_file, config_file, clock, globals, cities, rows, slider_value,
            slider_offset, offset_label, status_strip, input, ret >>

\* the PID a popup that died without cleaning up has left in the file: no process has it
StalePid == MaxLaunches + 1

\* the PID file before the first launch: absent, empty, or naming no live process
InitialPidFiles == { None, Str(<< >>), PidText(StalePid) }

RECURSIVE DecValue(_)
DecValue(s) ==
    IF s = << >> THEN 0
    ELSE 10 * DecValue(SubSeq(s, 1, Len(s) - 1))
             + (CHOOSE d \in 0..9 : DecChars[d + 1] = s[Len(s)])

\* int(f.read().strip()): None stands for ValueError
int_of(text) ==
    LET s == strip(text)
    IN  IF s # << >> /\ \A i \in 1..Len(s) : \E d \in 0..9 : DecChars[d + 1] = s[i]
        THEN Num(DecValue(s))
        ELSE None

\* main() from its first line to signal.signal(): the process has no handlers yet
StartupPcs == { "start", "read", "kill", "unlink", "unlink_stale", "open", "write",
                "install" }

\* the process exists: os.kill finds it
alive(p) == p \in Pids /\ procs[p].pc \notin { "unborn", "exited", "killed", "crashed" }

\* os.unlink(pidfile) seen by the others: a process that holds the file open for
\* writing keeps writing to the unlinked file
unlinked(ps) ==
    [q \in Pids |-> IF ps[q].pc = "write" /\ pidfile # None
                    THEN [ps[q] EXCEPT !.orphaned = TRUE]
                    ELSE ps[q]]

InitLaunch ==
    /\ pc = "launch"
    /\ theme_file = MissingThemeFile
    /\ config_file = MissingConfigFile
    /\ clock = ClockStart
    /\ TC = << >>
    /\ THEME = build_semantic_theme(TC)
    /\ DAY_RGB = hex_to_rgb(THEME.day)
    /\ NIGHT_RGB = hex_to_rgb(THEME.night)
    /\ LOCAL_TZ = "UTC"
    /\ cities = << >>
    /\ rows = << >>
    /\ slider_value = 0
    /\ slider_offset = 0
    /\ offset_label = [text |-> << >>, shifted |-> FALSE]
    /\ status_strip = None
    /\ input = NoInput
    /\ ret = None
    /\ pidfile \in InitialPidFiles
    /\ procs = NoProcs
    /\ concurrent = FALSE

\* the program is started: the process enters main()
Launch(p) ==
    /\ procs[p].pc = "unborn"
    /\ IF p = 1 THEN TRUE ELSE procs[p - 1].pc # "unborn"
    /\ procs' = [procs EXCEPT ![p].pc = "start"]
    /\ concurrent' = (concurrent \/ \E q \in Pids : procs[q].pc \in StartupPcs)
    /\ UNCHANGED << popup, pidfile >>

\* if os.path.exists(pidfile)
CheckExists(p) ==
    /\ procs[p].pc = "start"
    /\ procs' = [procs EXCEPT ![p].pc = IF pidfile # None THEN "read" ELSE "open"]
    /\ UNCHANGED << popup, pidfile, concurrent >>

\* with open(pidfile, "r") as f: old_pid = int(f.read().strip()); a file gone since
\* the check is a FileNotFoundError, which nothing catches
ReadPid(p) ==
    /\ procs[p].pc = "read"
    /\ procs' = IF pidfile = None THEN [procs EXCEPT ![p].pc = "crashed"]
                ELSE IF int_of(pidfile.v) = None
                THEN [procs EXCEPT ![p].pc = "unlink_stale"]
                ELSE [procs EXCEPT ![p].pc = "kill", ![p].old_pid = int_of(pidfile.v).v]
    /\ UNCHANGED << popup, pidfile, concurrent >>

\* os.kill(old_pid, signal.SIGTERM); ProcessLookupError when no process has the PID
Kill(p) ==
    /\ procs[p].pc = "kill"
    /\ procs' = IF alive(procs[p].old_pid)
                THEN [procs EXCEPT ![p].pc = "unlink",
                                   ![procs[p].old_pid].signalled = TRUE]
                ELSE [procs EXCEPT ![p].pc = "unlink_stale"]
    /\ UNCHANGED << popup, pidfile, concurrent >>

\* os.unlink(pidfile); sys.exit(0).  A file gone since is a FileNotFoundError, which
\* the except clause does not name
UnlinkAndExit(p) ==
    /\ procs[p].pc = "unlink"
    /\ procs' = [unlinked(procs) EXCEPT ![p].pc = IF pidfile = None THEN "crashed"
                                                  ELSE "exited"]
    /\ pidfile' = None
    /\ UNCHANGED << popup, concurrent >>

\* except (ProcessLookupError, ValueError): os.unlink(pidfile), a missing file passed
UnlinkStale(p) ==
    /\ procs[p].pc = "unlink_stale"
    /\ procs' = [unlinked(procs) EXCEPT ![p].pc = "open"]
    /\ pidfile' = None
    /\ UNCHANGED << popup, concurrent >>

\* open(pidfile, "w"): the file is created, or emptied
OpenForWrite(p) ==
    /\ procs[p].pc = "open"
    /\ procs' = [procs EXCEPT ![p].pc = "write", ![p].orphaned = FALSE]
    /\ pidfile' = Str(<< >>)
    /\ UNCHANGED << popup, concurrent >>

\* f.write(str(os.getpid())) and the close that ends the with block
WritePid(p) ==
    /\ procs[p].pc = "write"
    /\ procs' = [procs EXCEPT ![p].pc = "install"]
    /\ pidfile' = IF procs[p].orphaned THEN pidfile ELSE PidText(p)
    /\ UNCHANGED << popup, concurrent >>

\* signal.signal(SIGTERM, cleanup); signal.signal(SIGINT, cleanup); app.run([])
InstallHandlers(p) ==
    /\ procs[p].pc = "install"
    /\ procs' = [procs EXCEPT ![p].pc = "running"]
    /\ UNCHANGED << popup, pidfile, concurrent >>

\* the SIGTERM sent to the process reaches it: before signal.signal() it ends the
\* process at once, after it cleanup() is called
Deliver(p) ==
    /\ procs[p].signalled
    /\ procs[p].pc \in StartupPcs \cup { "running" }
    /\ procs' = [procs EXCEPT ![p].pc = IF procs[p].pc = "running" THEN "cleanup"
                                        ELSE "killed"]
    /\ UNCHANGED << popup, pidfile, concurrent >>

\* cleanup(): os.unlink(pidfile), a missing file passed; sys.exit(0).  SystemExit
\* raised in the handler either unwinds main(), through its finally block, or ends
\* the process where the main loop's callback catches it
Cleanup(p) ==
    /\ procs[p].pc = "cleanup"
    /\ \E next \in { "finally", "exited" } :
          procs' = [unlinked(procs) EXCEPT ![p].pc = next]
    /\ pidfile' = None
    /\ UNCHANGED << popup, concurrent >>

\* finally: os.unlink(pidfile), a missing file passed
Finally(p) ==
    /\ procs[p].pc = "finally"
    /\ procs' = [unlinked(procs) EXCEPT ![p].pc = "exited"]
    /\ pidfile' = None
    /\ UNCHANGED << popup, concurrent >>

NextLaunch ==
    \E p \in Pids :
        \/ Launch(p)
        \/ CheckExists(p)
        \/ ReadPid(p)
        \/ Kill(p)
        \/ UnlinkAndExit(p)
        \/ UnlinkStale(p)
        \/ OpenForWrite(p)
        \/ WritePid(p)
        \/ InstallHandlers(p)
        \/ Deliver(p)
        \/ Cleanup(p)
        \/ Finally(p)

SpecLaunch == InitLaunch /\ [][NextLaunch]_vars

(***************************************************************************)
(* The functions applied on their own: SpecPure draws a function and its   *)
(* arguments and applies it once.                                          *)
(***************************************************************************)
\* the keys build_semantic_theme consults
ThemeKeys ==
    { "background", "foreground", "color15", "color7", "accent", "color4", "color12",
      "selection_background", "cursor", "selection_foreground", "color11", "color3",
      "color1" }

\* the values a theme mapping holds: absent, malformed, valid but not normalized, valid
RawValues ==
    { None,
      Str(<< "#", "f", "f", "f" >>),
      Str(<< " ", "F", "F", "F", "F", "F", "F", "\n" >>),
      Str(<< "#", "0", "4", "0", "8", "0", "C" >>) }

ThemeInputs ==
    UNION { [K -> RawValues] :
              K \in { S \in SUBSET ThemeKeys : Cardinality(S) <= MaxThemeKeys } }

\* the (keys, fallback) pairs of the calls build_semantic_theme makes
PickCalls(theme) ==
    LET accent == pick_theme_color(theme,
                      << "accent", "color4", "color12", "selection_background" >>,
                      Str(<< "#", "7", "a", "a", "2", "f", "7" >>))
    IN  { << << "background" >>, Str(<< "#", "1", "a", "1", "b", "2", "6" >>) >>,
          << << "foreground", "color15", "color7" >>,
             Str(<< "#", "a", "9", "b", "1", "d", "6" >>) >>,
          << << "accent", "color4", "color12", "selection_background" >>,
             Str(<< "#", "7", "a", "a", "2", "f", "7" >>) >>,
          << << "cursor", "selection_foreground", "foreground" >>,
             Str(<< "#", "c", "0", "c", "a", "f", "5" >>) >>,
          << << "color11", "color3", "accent" >>, accent >>,
          << << "color4", "accent", "color12" >>, accent >>,
          << << "color1" >>, Str(<< "#", "e", "f", "4", "4", "4", "4" >>) >> }

\* the zone ids cities.json can hold unchecked: resolvable ones, an id the database
\* does not know and one that is no relative path
StripZoneIds == { "Europe/Warsaw", "Australia/Darwin", "Mars/Phobos", "/etc/localtime" }

PureInputs ==
    { [fn |-> "build_semantic_theme", theme |-> th] : th \in ThemeInputs }
    \cup UNION { { [fn |-> "pick_theme_color", theme |-> th,
                    keys |-> call[1], fallback |-> call[2]] : call \in PickCalls(th) } :
                 th \in ThemeInputs }
    \cup { [fn |-> "get_offset_str", diff_secs |-> 60 * m] :
             m \in (-MaxDiffMinutes)..MaxDiffMinutes }
    \cup { [fn |-> "get_offset_str", diff_secs |-> s] :
             s \in (-MaxDiffSeconds)..MaxDiffSeconds }
    \cup { [fn |-> "format_slider_label", hours_offset |-> k] :
             k \in (-SLIDER_RANGE * StepsPerHour)..(SLIDER_RANGE * StepsPerHour) }
    \cup { [fn |-> "contrast_mix", mix |-> m] :
             m \in (-MaxMixExcess)..(1000 + MaxMixExcess) }
    \cup { [fn |-> "daylight_mix", hour |-> h] : h \in 0..24 }
    \cup { [fn |-> "get_average_daylight", tz_list |-> tzs, hour_offset |-> d] :
             tzs \in UNION { [1..n -> StripZoneIds] : n \in 0..MaxStripZones },
             d \in { -24, 0, 5 } }

\* the functions that read the palette's contrast and gamma: they are applied under
\* the light palette too
PaletteReaders == { "contrast_mix", "daylight_mix" }

InitPure ==
    /\ pc = "pure"
    /\ theme_file \in { MissingThemeFile, LightThemeFile }
    /\ config_file = MissingConfigFile
    /\ clock = ClockStart
    /\ TC = load_theme_colors(theme_file).value
    /\ THEME = build_semantic_theme(TC)
    /\ DAY_RGB = hex_to_rgb(THEME.day)
    /\ NIGHT_RGB = hex_to_rgb(THEME.night)
    /\ LOCAL_TZ = "UTC"
    /\ cities = << >>
    /\ rows = << >>
    /\ slider_value = 0
    /\ slider_offset = 0
    /\ offset_label = [text |-> << >>, shifted |-> FALSE]
    /\ status_strip = None
    /\ input \in { i \in PureInputs :
                      theme_file = MissingThemeFile \/ i.fn \in PaletteReaders }
    /\ ret = None
    /\ pidfile = None
    /\ procs = NoProcs
    /\ concurrent = FALSE

Apply(fn, result) ==
    /\ pc = "pure"
    /\ input.fn = fn
    /\ ret = None
    /\ ret' = result
    /\ UNCHANGED << pc, environment, globals, cities, rows, slider_value, slider_offset,
                    offset_label, status_strip, input >>

ApplyPickThemeColor ==
    Apply("pick_theme_color",
          pick_theme_color(input.theme, input.keys, input.fallback))

ApplyBuildSemanticTheme ==
    Apply("build_semantic_theme", build_semantic_theme(input.theme))

ApplyGetOffsetStr == Apply("get_offset_str", Str(offset_str_of(input.diff_secs)))

ApplyFormatSliderLabel ==
    Apply("format_slider_label", Str(format_slider_label(input.hours_offset, clock)))

ApplyContrastMix == Apply("contrast_mix", Num(contrast_mix(input.mix)))

ApplyDaylightMix == Apply("daylight_mix", Num(daylight_mix(input.hour)))

ApplyGetAverageDaylight ==
    Apply("get_average_daylight",
          StatusStrip_get_average_daylight_call(
              [StatusStrip(input.tz_list) EXCEPT !.queued = FALSE],
              input.hour_offset, clock))

NextPure ==
    \/ ApplyPickThemeColor
    \/ ApplyBuildSemanticTheme
    \/ ApplyGetOffsetStr
    \/ ApplyFormatSliderLabel
    \/ ApplyContrastMix
    \/ ApplyDaylightMix
    \/ ApplyGetAverageDaylight

SpecPure == InitPure /\ [][NextPure]_vars

(***************************************************************************)
(* Properties                                                              *)
(***************************************************************************)
LowerHexChars == { HexChars[i] : i \in 1..16 }

\* a Python value that is a lowercase "#rrggbb" string
IsCanonicalColor(value) ==
    /\ value.t = "str"
    /\ Len(value.v) = 7
    /\ value.v[1] = "#"
    /\ \A i \in 2..7 : value.v[i] \in LowerHexChars

\* the text of a valid 6-hex colour: an optional "#", then six hex digits, with
\* white space around them
HasValidColorText(value) ==
    /\ value.t = "str"
    /\ \E i, j \in 1..Len(value.v) :
          /\ j - i \in {5, 6}
          /\ \A k \in 1..Len(value.v) : (k < i \/ k > j) => IsSpace(value.v[k])
          /\ j - i = 6 => value.v[i] = "#"
          /\ \A k \in (j - 5)..j : IsHexChar(value.v[k])

\* the six hex digits of a valid colour text, in lower case
ColorDigits(value) ==
    LET j == CHOOSE j \in 1..Len(value.v) :
                 ~IsSpace(value.v[j]) /\ \A k \in (j + 1)..Len(value.v) : IsSpace(value.v[k])
    IN  [k \in 1..6 |-> lower_char(value.v[j - 6 + k])]

\* the colour a valid colour text normalizes to
CanonicalOf(value) == Str(<< "#" >> \o ColorDigits(value))

\* the keys of a pick_theme_color call whose value in the theme is a valid colour
ValidKeyIndexes(theme, keys) ==
    { i \in 1..Len(keys) : keys[i] \in DOMAIN theme /\ HasValidColorText(theme[keys[i]]) }

Min(S) == CHOOSE x \in S : \A y \in S : x <= y

\* C1: pick_theme_color returns the normalized colour stored under the first key, in
\* list order, whose value in the theme is a valid 6-hex colour; keys that are missing
\* or hold a malformed or absent value are skipped; with no such key the result is the
\* normalized fallback.
C1_PickFirstValidKey ==
    (input.fn = "pick_theme_color" /\ ret # None) =>
        LET valid == ValidKeyIndexes(input.theme, input.keys)
        IN  /\ IsCanonicalColor(ret)
            /\ valid # {} => ret = CanonicalOf(input.theme[input.keys[Min(valid)]])
            /\ valid = {} => ret = CanonicalOf(input.fallback)

\* a malformed first key is skipped and the second key's colour, not yet normalized, is
\* returned normalized
C1_Witness ==
    /\ input.fn = "pick_theme_color"
    /\ Len(input.keys) >= 2
    /\ input.keys[1] \in DOMAIN input.theme
    /\ input.theme[input.keys[1]] = Str(<< "#", "f", "f", "f" >>)
    /\ input.keys[2] \in DOMAIN input.theme
    /\ input.theme[input.keys[2]] = Str(<< " ", "F", "F", "F", "F", "F", "F", "\n" >>)
    /\ ret = Str(<< "#", "f", "f", "f", "f", "f", "f" >>)

PaletteColors ==
    { "bg", "fg", "accent", "cursor", "dim", "surface", "surface2", "day", "night", "red" }

\* C2: for every theme mapping (empty, keys missing, values malformed or absent)
\* build_semantic_theme returns a palette, and each of its ten colours is a lowercase
\* "#rrggbb" string, every channel two hex digits, 0..255.
C2_PaletteAlwaysValid ==
    (input.fn = "build_semantic_theme" /\ ret # None) =>
        /\ PaletteColors \subseteq DOMAIN ret
        /\ \A field \in PaletteColors : IsCanonicalColor(ret[field])

\* a palette built from a theme whose background is malformed and whose accent is absent
C2_Witness ==
    /\ input.fn = "build_semantic_theme"
    /\ DOMAIN input.theme = { "background", "accent" }
    /\ input.theme["background"] = Str(<< "#", "f", "f", "f" >>)
    /\ input.theme["accent"] = None
    /\ ret # None
    /\ ret.bg = Str(<< "#", "1", "a", "1", "b", "2", "6" >>)


\* C3: load_theme_colors never raises: whether the theme source is missing, unreadable
\* (permission denied, a directory, undecodable bytes) or unparsable, it returns a
\* mapping and the import of the module goes on to build the palette, so the program
\* never stops while loading the theme.
C3_LoadThemeNeverRaises ==
    /\ pc # "crashed"
    /\ pc # "import" => load_theme_colors(theme_file).raised = "none"

\* the red, green and blue channels, 0..255, of a "#rrggbb" colour
Channels(color) ==
    [i \in 1..3 |-> 16 * HexVal(color.v[2 * i]) + HexVal(color.v[2 * i + 1])]

\* the channel a blend of channels a and b at permille/1000 truncates to
LerpChannel(a, b, permille) == (a * (1000 - permille) + b * permille) \div 1000

Lerp(a, b, permille) == [i \in 1..3 |-> LerpChannel(a[i], b[i], permille)]

\* C4: build_semantic_theme of the empty theme returns the built-in bg, fg, accent,
\* cursor and red, takes the theme for dark, and so uses contrast 1.6, gamma 1.35 and
\* the dark ratios 0.5, 0.11, 0.2, 0.28, 0.34 for dim, surface, surface2, day, night.
C4_EmptyThemeIsBuiltInDark ==
    (input.fn = "build_semantic_theme" /\ DOMAIN input.theme = {} /\ ret # None) =>
        LET bg == << 26, 27, 38 >>
            fg == << 169, 177, 214 >>
            accent == << 122, 162, 247 >>
            white == << 255, 255, 255 >>
        IN  /\ ret.bg = Str(<< "#", "1", "a", "1", "b", "2", "6" >>)
            /\ ret.fg = Str(<< "#", "a", "9", "b", "1", "d", "6" >>)
            /\ ret.accent = Str(<< "#", "7", "a", "a", "2", "f", "7" >>)
            /\ ret.cursor = Str(<< "#", "c", "0", "c", "a", "f", "5" >>)
            /\ ret.red = Str(<< "#", "e", "f", "4", "4", "4", "4" >>)
            /\ ~is_light_theme(ret.bg)
            /\ ret.daylight_contrast = 160
            /\ ret.daylight_gamma = 135
            /\ Channels(ret.dim) = Lerp(fg, bg, 500)
            /\ Channels(ret.surface) = Lerp(bg, fg, 110)
            /\ Channels(ret.surface2) = Lerp(bg, fg, 200)
            /\ Channels(ret.day) = Lerp(accent, white, 280)
            /\ Channels(ret.night) = Lerp(bg, accent, 340)

\* the palette of the empty theme has been built
C4_Witness ==
    /\ input.fn = "build_semantic_theme"
    /\ DOMAIN input.theme = {}
    /\ ret # None
    /\ ret.surface = Str(<< "#", "2", "9", "2", "b", "3", "9" >>)


\* the strip has been drawn since its zones, offset or colours last changed
StripDrawn == pc = "running" /\ ~status_strip.queued

RECURSIVE SumOfMixes(_, _, _, _)
\* daylightMix summed over the first n zones of the strip, at displacement d
SumOfMixes(self, d, at, n) ==
    IF n = 0 THEN 0
    ELSE SumOfMixes(self, d, at, n - 1)
             + daylight_mix(StatusStrip_hour(self.tz_list[n], self.offset_hours, d, at))

\* the mean of daylightMix over the strip's zones; the midpoint for no zones
AverageMix(self, d, at) ==
    IF Len(self.tz_list) = 0 THEN 500
    ELSE SumOfMixes(self, d, at, Len(self.tz_list)) \div Len(self.tz_list)

\* blend(night, day, mix), channel by channel
BlendNightDay(mix) ==
    [c \in 1..3 |-> (NIGHT_RGB[c] * (1000 - mix) + DAY_RGB[c] * mix) \div 1000]

\* C5: whatever the city zones and the slider offset, the drawn strip has 48 buckets;
\* bucket i (0..47) stands for displacement d = i - 24 and is coloured
\* blend(night, day, contrastMix(avg)), avg being the mean over the cities of
\* daylightMix(hour of the city at displacement d) and 0.5 for no cities, so that an
\* empty list gives 48 equal buckets of blend(night, day, contrastMix(0.5)).
C5_StripBuckets ==
    StripDrawn =>
        /\ Len(status_strip.drawn) = 48
        /\ \A i \in 0..47 :
              status_strip.drawn[i + 1] =
                  BlendNightDay(contrast_mix(
                      AverageMix(status_strip, i - 24, status_strip.drawn_at)))
        /\ status_strip.tz_list = << >> =>
              \A i \in 0..47 :
                  status_strip.drawn[i + 1] = BlendNightDay(contrast_mix(500))

\* a strip drawn for two cities with the slider moved, whose buckets differ
C5_Witness ==
    /\ StripDrawn
    /\ Len(status_strip.tz_list) = 2
    /\ status_strip.offset_hours = 270
    /\ status_strip.drawn[13] # status_strip.drawn[25]
    /\ status_strip.drawn[25] # status_strip.drawn[48]

\* C6: for every city zone, slider offset and displacement d, the hour fed to
\* daylightMix is the zone's wall-clock hour at the instant now + offset + d hours,
\* under the UTC offset in force at that instant, also across a DST transition.
C6_HourAtShiftedInstant ==
    StripDrawn =>
        \A j \in 1..Len(status_strip.tz_list) : \A d \in -24..23 :
            StatusStrip_hour(status_strip.tz_list[j], status_strip.offset_hours, d,
                             status_strip.drawn_at)
                = hour_of(wall_clock(status_strip.tz_list[j],
                                     status_strip.drawn_at + status_strip.offset_hours
                                         + d * StepsPerHour))


Digit(d) == << "0", "1", "2", "3", "4", "5", "6", "7", "8", "9" >>[d + 1]

\* the decimal numeral of n < 100, and the two-digit one
Numeral(n) == IF n < 10 THEN << Digit(n) >> ELSE << Digit(n \div 10), Digit(n % 10) >>

TwoDigits(n) == << Digit(n \div 10), Digit(n % 10) >>

SignOf(n) == IF n > 0 THEN "+" ELSE "-"

\* C8: for every non-zero diff of whole minutes, of either sign, get_offset_str returns
\* "{sign}{H}h" for whole hours and "{sign}{H}h{MM}m" otherwise, with the sign of diff,
\* H = floor(|diff| / 3600) and MM = (|diff| mod 3600) / 60 in two digits: "+9h30m" for
\* +34200 s, "+9h" for +32400 s, "-3h30m" for -12600 s.
C8_OffsetLabelFormat ==
    (input.fn = "get_offset_str" /\ ret # None
         /\ input.diff_secs # 0 /\ input.diff_secs % 60 = 0) =>
        LET diff == input.diff_secs
            H == abs(diff) \div 3600
            MM == (abs(diff) % 3600) \div 60
        IN  /\ abs(diff) % 3600 = 0 => ret.v = << SignOf(diff) >> \o Numeral(H) \o << "h" >>
            /\ abs(diff) % 3600 # 0 =>
                  ret.v = << SignOf(diff) >> \o Numeral(H) \o << "h" >>
                              \o TwoDigits(MM) \o << "m" >>
            /\ diff = 34200 => ret.v = << "+", "9", "h", "3", "0", "m" >>
            /\ diff = 32400 => ret.v = << "+", "9", "h" >>
            /\ diff = -12600 => ret.v = << "-", "3", "h", "3", "0", "m" >>

\* the label of a zone half an hour behind: hours 0, the sign that of diff
C8_Witness ==
    /\ input.fn = "get_offset_str"
    /\ input.diff_secs = -1800
    /\ ret = Str(<< "-", "0", "h", "3", "0", "m" >>)

StartsWith(s, prefix) ==
    Len(s) >= Len(prefix) /\ SubSeq(s, 1, Len(prefix)) = prefix

EndsWith(s, suffix) ==
    Len(s) >= Len(suffix) /\ SubSeq(s, Len(s) - Len(suffix) + 1, Len(s)) = suffix

\* C9: in every state the offset label of a city row is the difference of the remote
\* and the local UTC offset in force at the instant of the row's time, now shifted by
\* the slider offset the row was updated with, also across a DST transition of either
\* zone.
C9_RowOffsetAtShiftedInstant ==
    pc = "running" =>
        \A i \in 1..Len(rows) :
            LET shifted == rows[i].updated_at + rows[i].updated_with
                diff == utcoffset(rows[i].tz, shifted) - utcoffset(LOCAL_TZ, shifted)
            IN  StartsWith(rows[i].offset_label, offset_str_of(diff) \o << " " >>)

\* M = round(hours * 60) for hours = k steps: the integer nearest to k / 3
RoundedMinutes(k) ==
    CHOOSE M \in (-60 * SLIDER_RANGE - 1)..(60 * SLIDER_RANGE + 1) :
        abs(2 * k - 2 * StepsPerMinute * M) < StepsPerMinute

FromNow == << " ", "f", "r", "o", "m", " ", "n", "o", "w" >>

\* the texts "{rel}" may be for M # 0: the sign, then the hours if not 0, then the
\* minutes if not 0
RelTexts(M) ==
    LET H == abs(M) \div 60
        Mi == abs(M) % 60
        hours == IF H # 0 THEN Numeral(H) \o << "h" >> ELSE << >>
    IN  IF Mi = 0 THEN { << SignOf(M) >> \o hours }
        ELSE { << SignOf(M) >> \o hours \o digits \o << "m" >> :
                 digits \in { Numeral(Mi), TwoDigits(Mi) } }

\* C10: for every slider offset, with M = round(offset * 60), format_slider_label ends
\* in "<middle dot> Now" exactly when M = 0, and otherwise in "{rel} from now", rel being
\* the sign of M and the non-zero ones of the hours and minutes of |M|: "+3h" for 180,
\* "+45m" for 45, "+1h30m" for 90, "-15m" for -15.
C10_SliderLabel ==
    (input.fn = "format_slider_label" /\ ret # None) =>
        LET M == RoundedMinutes(input.hours_offset)
        IN  /\ EndsWith(ret.v, << MIDDLE_DOT, " ", "N", "o", "w" >>) <=> M = 0
            /\ M # 0 =>
                  \E rel \in RelTexts(M) :
                      EndsWith(ret.v, << MIDDLE_DOT, " " >> \o rel \o FromNow)
            /\ M = 180 => EndsWith(ret.v, << " ", "+", "3", "h" >> \o FromNow)
            /\ M = 45 => EndsWith(ret.v, << " ", "+", "4", "5", "m" >> \o FromNow)
            /\ M = 90 => EndsWith(ret.v, << " ", "+", "1", "h", "3", "0", "m" >> \o FromNow)
            /\ M = -15 => EndsWith(ret.v, << " ", "-", "1", "5", "m" >> \o FromNow)

\* the label of a quarter of an hour back
C10_Witness ==
    /\ input.fn = "format_slider_label"
    /\ input.hours_offset = -45
    /\ ret = Str(<< "2", "3", ":", "4", "5", " ", MIDDLE_DOT, " ", "-", "1", "5", "m" >>
                     \o FromNow)


\* C11: contrast_mix returns a value in [0,1] for every mix, also below 0 and above 1,
\* under both palettes' contrast and gamma, (1.45, 1.1) and (1.6, 1.35); so every
\* city's daylight_mix is in [0,1], and so are the mean of two cities' mixes and the
\* strip's mix made of it.
C11_ContrastMixInUnitInterval ==
    /\ (input.fn = "contrast_mix" /\ ret # None) => ret.v \in 0..1000
    /\ (input.fn = "daylight_mix" /\ ret # None) =>
          /\ ret.v \in 0..1000
          /\ \A other \in 0..23 :
                LET average == (ret.v + daylight_mix(other)) \div 2
                IN  average \in 0..1000 /\ contrast_mix(average) \in 0..1000

\* contrast_mix of a mix far above 1 under the light palette
C11_Witness ==
    /\ input.fn = "contrast_mix"
    /\ input.mix = 1000 + MaxMixExcess
    /\ THEME.daylight_contrast = 145
    /\ THEME.daylight_gamma = 110
    /\ ret = Num(1000)

\* C12: daylight_mix is symmetric about noon, daylight_mix(12 + h) = daylight_mix(12 - h)
\* for h in 0..12; over the hours 0..23 daylight_mix(12) = contrast_mix(1.0) is the
\* largest and daylight_mix(0) = contrast_mix(0.0) the smallest value.
C12_DaylightMixSymmetric ==
    (input.fn = "daylight_mix" /\ ret # None) =>
        /\ ret.v = daylight_mix(24 - input.hour)
        /\ daylight_mix(0) <= ret.v
        /\ ret.v <= daylight_mix(12)
        /\ daylight_mix(12) = contrast_mix(1000)
        /\ daylight_mix(0) = contrast_mix(0)
        /\ daylight_mix(0) < daylight_mix(12)

\* the mix at 16:00, between night and day, is the one at 08:00
C12_Witness ==
    /\ input.fn = "daylight_mix"
    /\ input.hour = 16
    /\ ret # None
    /\ ret.v > 0
    /\ ret.v < 1000
    /\ ret.v = daylight_mix(8)


\* the ids of a zone list that the timezone database cannot resolve
Unresolved(tz_list) == { i \in 1..Len(tz_list) : tz_list[i] \notin DOMAIN ZoneRules }

\* C13: when the zone list given to the strip's aggregation holds an id the timezone
\* database cannot resolve, no city is dropped or skipped: the call ends with an
\* invalid-zone error that carries the first offending id and leaves the function, and
\* no average of the other cities is returned.
C13_InvalidZoneSignalled ==
    (input.fn = "get_average_daylight" /\ ret # None) =>
        LET bad == Unresolved(input.tz_list)
        IN  /\ bad # {} =>
                  /\ ret.raised \in { "ZoneInfoNotFoundError", "ValueError" }
                  /\ ret.key = input.tz_list[Min(bad)]
                  /\ ret.value = None
            /\ bad = {} => ret.raised = "none" /\ ret.value.t = "int"

\* a list whose second id is unknown, after a resolvable one
C13_Witness ==
    /\ input.fn = "get_average_daylight"
    /\ input.tz_list = << "Europe/Warsaw", "Mars/Phobos", "Australia/Darwin" >>
    /\ ret # None
    /\ ret.raised = "ZoneInfoNotFoundError"
    /\ ret.key = "Mars/Phobos"


\* C14: the refresh tick is idempotent and free of side effects: a tick leaves the city
\* list, the slider offset, the configuration file, the PID file and the palette as
\* they are, and a second tick at the same instant would leave every row and the
\* strip showing what they show after the first.
C14_TickIdempotent ==
    [][ Tick =>
          /\ cities' = cities
          /\ slider_offset' = slider_offset
          /\ slider_value' = slider_value
          /\ config_file' = config_file
          /\ pidfile' = pidfile
          /\ TC' = TC
          /\ THEME' = THEME
          /\ DAY_RGB' = DAY_RGB
          /\ NIGHT_RGB' = NIGHT_RGB
          /\ [i \in 1..Len(rows') |-> CityRow_update(rows'[i], slider_offset', clock')]
                 = rows'
          /\ status_strip'.tz_list = status_strip.tz_list
          /\ status_strip'.offset_hours = status_strip.offset_hours
          /\ StatusStrip_draw([status_strip' EXCEPT !.queued = TRUE], clock')
                 = StatusStrip_draw(status_strip', clock') ]_vars

\* half an hour after the popup opened a tick has refreshed the rows: the slider label
\* still carries the time it was set at
C14_Witness ==
    /\ pc = "running"
    /\ LOCAL_TZ = "UTC"
    /\ Len(rows) = 3
    /\ clock = ClockStart + ClockStep
    /\ \A i \in 1..Len(rows) : rows[i].updated_at = clock
    /\ rows[2].time_label = << "0", "2", ":", "3", "0" >>
    /\ offset_label.text = << "0", "0", ":", "0", "0", " ", MIDDLE_DOT, " ", "N", "o", "w" >>
    /\ status_strip.queued


\* C15: the city list persists across runs: for every list the user reaches by adding
\* and removing cities, the empty one too, load_cities() after save_cities(list)
\* returns that list, in the same order.
C15_SavedListLoadsBack ==
    (pc = "running" /\ config_file.kind = "list") =>
        /\ config_file = save_cities(cities)
        /\ load_cities(config_file) = cities

\* the zone ids of a city list are pairwise distinct
DistinctZones(city_list) ==
    \A i, j \in 1..Len(city_list) : city_list[i].tz = city_list[j].tz => i = j

\* a list without its i-th element
WithoutIndex(s, i) == [j \in 1..(Len(s) - 1) |-> IF j < i THEN s[j] ELSE s[j + 1]]

\* C19: from a city list of pairwise distinct zone ids, every sequence of additions and
\* removals keeps the zone ids pairwise distinct: adding a zone that is in the list
\* changes neither the list nor the file, adding a new zone appends it at the end, and
\* removing a row deletes that row's city alone, the others keeping their order.
C19_ZonesStayDistinct ==
    /\ [](pc = "running" => DistinctZones(cities))
    /\ [][ \A c \in Catalogue :
             OnCityAdded(c) =>
                 IF \E i \in 1..Len(cities) : cities[i].tz = c.tz
                 THEN cities' = cities /\ config_file' = config_file
                 ELSE cities' = cities \o << c >> ]_vars
    /\ [][ \A i \in 1..(MaxCities + 1) :
             OnCityRemoved(i) =>
                 /\ rows[i].tz = cities[i].tz
                 /\ cities' = WithoutIndex(cities, i) ]_vars

\* two default cities removed, a new one added at the end, and the list saved
C19_Witness ==
    /\ pc = "running"
    /\ Len(cities) = 2
    /\ cities[1].tz = "Australia/Brisbane"
    /\ cities[2].tz = "Australia/Darwin"
    /\ config_file = save_cities(cities)

\* C20: after any slider changes and Now clicks the stored offset lies in [-24, 24] and
\* is 0 or at least 0.3 in magnitude; the slider label ends in "<middle dot> Now"
\* exactly when the offset is 0, exactly when the label is not styled "shifted"; every
\* row and the strip were last updated with that offset.
C20_SliderViewsAgree ==
    pc = "running" =>
        /\ abs(slider_offset) <= SLIDER_RANGE * StepsPerHour
        /\ slider_offset = 0 \/ 10 * abs(slider_offset) >= 3 * StepsPerHour
        /\ EndsWith(offset_label.text, << MIDDLE_DOT, " ", "N", "o", "w" >>)
               <=> slider_offset = 0
        /\ offset_label.shifted <=> slider_offset # 0
        /\ \A i \in 1..Len(rows) : rows[i].updated_with = slider_offset
        /\ status_strip.offset_hours = slider_offset

\* the slider a quarter of an hour back: the offset snapped to 0, the label "Now"
C20_Witness ==
    /\ pc = "running"
    /\ slider_value = -45
    /\ slider_offset = 0
    /\ ~offset_label.shifted
    /\ Len(rows) > 0
    /\ status_strip.offset_hours = 0


\* the processes whose main() was entered
Launched == { p \in Pids : procs[p].pc # "unborn" }

\* a popup instance that has written its PID and has not been told to terminate
Live(p) == procs[p].pc \in { "install", "running" } /\ ~procs[p].signalled

\* every launch has finished its steps around the PID file
LaunchesDone == \A p \in Pids : procs[p].pc \notin StartupPcs \ { "install" }

\* C16: when launches follow one another, none made before the previous one has
\* finished, they alternate between open and closed: after an odd number of launches
\* one popup is live, after an even number none is.
C16_LaunchesAlternate ==
    (~concurrent /\ LaunchesDone) =>
        Cardinality({ p \in Pids : Live(p) }) = Cardinality(Launched) % 2

\* C17: under every interleaving of the launches' steps at most one popup instance is
\* live at any time.
C17_AtMostOneLive ==
    Cardinality({ p \in Pids : Live(p) }) <= 1

\* C18: whenever a popup instance is live the PID file holds that instance's PID, also
\* after the cleanup handler and the finally block of an earlier instance have run;
\* checked where no two launches overlap, so that only those exit paths run late.
C18_LiveInstanceOwnsPidFile ==
    ~concurrent => \A p \in Pids : Live(p) => pidfile = PidText(p)

====
